---- MODULE Spec2Model ----
(***************************************************************************)
(* mirro: edit a file through an external editor and keep a backup of the  *)
(* original whenever the edit changed it (src/src/mirro/main.py), together *)
(* with the backup store operations of spec.md (restoreLast, prune,        *)
(* parseBackupName, stripHeader) that main.py does not yet contain.        *)
(*                                                                         *)
(* Representation.  A file's bytes and a Python str are sequences of       *)
(* tokens.  Tokens of text: "a", "b" (ordinary characters), "LF", "CR",    *)
(* "REPL" (U+FFFD), "RULE" (the header's delimiter line with its newline)  *)
(* and "META" (any other whole header line with its newline).  "BAD" is a  *)
(* byte that is not valid UTF-8; it occurs on disk only.  A file name is a *)
(* sequence of tokens too: ".", "orig", "bak", "t", and the timestamp.     *)
(***************************************************************************)
EXTENDS Integers, Sequences, FiniteSets, TLC

VARIABLES
    tfiles,            \* target base name -> file ([exists, bytes])
    dir_exists,        \* the backup directory exists
    dir,               \* backup file name -> [bytes, mtime]
    now,               \* the clock, in seconds
    pc,                \* session -> position in main()
    original_content,  \* session -> main's local original_content (a str)
    edited_content,    \* session -> main's local edited_content (a str)
    temp,              \* session -> its temporary file
    result,            \* session -> what main() did: "None", "1", "raised"
    backup_path,       \* session -> name of the record it wrote
    nsess,             \* number of sessions started so far
    obs,               \* session -> observations of the running session
    changed_from,      \* texts the target held when the sessions that changed it started
    op,                \* the last backup store operation and its outcome
    nm                 \* the naming round trip: input pair, name, parse

vars == <<tfiles, dir_exists, dir, now, pc, original_content, edited_content,
          temp, result, backup_path, nsess, obs, changed_from, op, nm>>

----------------------------------------------------------------------------
\* Bounds of the model.

\* seconds the clock may advance within a day
MaxSecs == 1
\* days the clock may advance
MaxDays == 1
\* edit sessions started in one behaviour
MaxSessions == 3
\* files held by the backup directory in the store specification
MaxFiles == 2
\* tokens of an original base name in the naming specification
MaxNameLen == 3

SecondsPerDay == 86400

----------------------------------------------------------------------------
\* Files and text.

NoFile == [exists |-> FALSE, bytes |-> <<>>]

File(b) == [exists |-> TRUE, bytes |-> b]

\* bytes -> str as Path.read_text(encoding="utf-8", errors="replace") does
\* it: an undecodable byte becomes U+FFFD, and text mode's universal
\* newlines turn "\r\n" and "\r" into "\n".
RECURSIVE Decode(_)
Decode(bs) ==
    IF bs = <<>> THEN <<>>
    ELSE LET h == Head(bs)
             t == Tail(bs)
         IN  IF h = "BAD" THEN <<"REPL">> \o Decode(t)
             ELSE IF h = "CR"
                  THEN IF t # <<>> /\ Head(t) = "LF"
                       THEN <<"LF">> \o Decode(Tail(t))
                       ELSE <<"LF">> \o Decode(t)
                  ELSE <<h>> \o Decode(t)

\* str -> bytes as Path.write_text(encoding="utf-8") does it on POSIX: every
\* character of a str read by Decode has a UTF-8 encoding, named by the same
\* token, and "\n" is written as "\n".
Encode(s) == [i \in 1..Len(s) |-> s[i]]

read_file(f) == IF ~f.exists THEN <<>> ELSE Decode(f.bytes)

write_file_Nothing(content) == File(<<>>)

write_file(content) == File(Encode(content))

----------------------------------------------------------------------------
\* Backup naming.

Min(S) == CHOOSE x \in S : \A y \in S : x <= y

\* time.strftime("%Y%m%dT%H%M%S", time.gmtime()): one token per second of
\* the clock, different seconds giving different tokens, none holding a ".".
Timestamp(t) == ToString(t)

Marker == <<".", "orig", ".">>

makeBackupName_NoMarker(originalName, timestamp) ==
    originalName \o <<".">> \o <<timestamp>> \o <<".", "bak">>

makeBackupName(originalName, timestamp) ==
    originalName \o Marker \o <<timestamp>> \o <<".", "bak">>

MarkerAt(fileName, i) ==
    i + 2 <= Len(fileName) /\ SubSeq(fileName, i, i + 2) = Marker

NotABackup == [ok |-> FALSE, originalName |-> <<>>, timestamp |-> <<>>]

\* Splits at the first ".orig."; the timestamp stops at the next ".".
parseBackupName(fileName) ==
    LET at == {i \in 1..Len(fileName) : MarkerAt(fileName, i)}
    IN  IF at = {} THEN NotABackup
        ELSE LET i     == Min(at)
                 after == SubSeq(fileName, i + 3, Len(fileName))
                 dots  == {j \in 1..Len(after) : after[j] = "."}
                 stop  == IF dots = {} THEN Len(after) + 1 ELSE Min(dots)
             IN  [ok |-> TRUE,
                  originalName |-> SubSeq(fileName, 1, i - 1),
                  timestamp |-> SubSeq(after, 1, stop - 1)]

----------------------------------------------------------------------------
\* Header codec.

LineStart(text, j) == j = 1 \/ text[j - 1] \in {"LF", "RULE", "META"}

HeaderEnds(text) ==
    {j \in 2..(Len(text) - 1) :
        text[j] = "RULE" /\ LineStart(text, j) /\ text[j + 1] = "LF"}

\* Text that begins with the delimiter line, followed eventually by the
\* delimiter line and a blank line, loses everything up to that blank line.
stripHeader(text) ==
    IF text # <<>> /\ text[1] = "RULE" /\ HeaderEnds(text) # {}
    THEN SubSeq(text, Min(HeaderEnds(text)) + 2, Len(text))
    ELSE text

----------------------------------------------------------------------------
\* The backup directory.

EmptyDir == [x \in {} |-> [bytes |-> <<>>, mtime |-> 0]]

PutFile(d, n, f) == [x \in DOMAIN d \cup {n} |-> IF x = n THEN f ELSE d[x]]

backup_original_Empty(d, originalName, original_content_, t) ==
    LET backup_name == makeBackupName(originalName, Timestamp(t))
    IN  [path |-> backup_name,
         dir  |-> PutFile(d, backup_name, [bytes |-> <<>>, mtime |-> t])]

\* backup_dir.mkdir(exist_ok=True) has succeeded; the record is written under
\* "<name>.orig.<timestamp>.bak", creating the file or replacing its content.
backup_original(d, originalName, original_content_, t) ==
    LET backup_name == makeBackupName(originalName, Timestamp(t))
    IN  [path |-> backup_name,
         dir  |-> PutFile(d, backup_name,
                          [bytes |-> Encode(original_content_), mtime |-> t])]

----------------------------------------------------------------------------
\* Edit sessions: main().

\* The sessions: the user's, and a second invocation that may overlap it.
Procs == {1, 2}

\* The file every session edits, and the other base name the store knows.
Target == <<"t">>

TargetNames == {<<"t">>, <<"t", ".", "orig">>}

\* What the target may hold before the first session: nothing, plain text,
\* a byte that is not UTF-8, a CRLF line, a copy of a header-wrapped record.
InitialTargets ==
    {NoFile, File(<<"a">>), File(<<"BAD">>), File(<<"a", "CR", "LF">>),
     File(<<"RULE", "META", "RULE", "LF", "a">>)}

\* What the editor may leave in the temporary file when it changes it.
EditorOutputs == {<<"a">>, <<"b">>}

NoObs ==
    [tw |-> TRUE, pw |-> TRUE, start |-> NoFile, dir0 |-> EmptyDir,
     de0 |-> FALSE, launched |-> FALSE, temp_made |-> FALSE,
     created |-> FALSE, wrote |-> <<>>, before |-> NoFile,
     dirty |-> FALSE, stage |-> "none"]

PermissionDenied_ExistingOnly(exists, tw, pw) == exists /\ ~tw

\* os.access(target, W_OK) is tw, os.access(parent, W_OK) is pw.
PermissionDenied(exists, tw, pw) == (exists /\ ~tw) \/ (~exists /\ ~pw)

Changed_Always(edited, original) == TRUE

Changed(edited, original) == edited # original

\* Sessions other than p that have read the target and not yet returned see
\* it written under them.
Dirtied(p) ==
    [q \in Procs |->
        IF q # p /\ pc[q] \in {"editor", "compare", "backup", "overwrite"}
        THEN [obs[q] EXCEPT !.dirty = TRUE]
        ELSE obs[q]]

\* Lines 52-73: the permission checks, the read of the original, the
\* temporary file.
Start(p) ==
    /\ pc[p] \in {"idle", "returned"}
    /\ nsess < MaxSessions
    /\ nsess' = nsess + 1
    /\ edited_content' = [edited_content EXCEPT ![p] = <<>>]
    /\ backup_path' = [backup_path EXCEPT ![p] = <<>>]
    /\ \E tw, pw \in BOOLEAN :
         LET seen == [NoObs EXCEPT !.tw = tw, !.pw = pw,
                                   !.start = tfiles[Target],
                                   !.dir0 = dir, !.de0 = dir_exists]
         IN  IF PermissionDenied(tfiles[Target].exists, tw, pw)
             THEN /\ pc' = [pc EXCEPT ![p] = "returned"]
                  /\ result' = [result EXCEPT ![p] = "1"]
                  /\ original_content' = [original_content EXCEPT ![p] = <<>>]
                  /\ temp' = [temp EXCEPT ![p] = NoFile]
                  /\ obs' = [obs EXCEPT ![p] = [seen EXCEPT !.stage = "denied"]]
             ELSE /\ pc' = [pc EXCEPT ![p] = "editor"]
                  /\ result' = [result EXCEPT ![p] = "None"]
                  /\ original_content' =
                         [original_content EXCEPT ![p] = read_file(tfiles[Target])]
                  /\ temp' = [temp EXCEPT ![p] = write_file(read_file(tfiles[Target]))]
                  /\ obs' = [obs EXCEPT ![p] = [seen EXCEPT !.temp_made = TRUE]]
    /\ UNCHANGED <<tfiles, dir_exists, dir, now, changed_from, op, nm>>

\* Line 76: the editor runs on the temporary file and saves it, or not.
Editor(p) ==
    /\ pc[p] = "editor"
    /\ pc' = [pc EXCEPT ![p] = "compare"]
    /\ obs' = [obs EXCEPT ![p].launched = TRUE]
    /\ \/ UNCHANGED temp
       \/ \E out \in EditorOutputs : temp' = [temp EXCEPT ![p] = File(out)]
    /\ UNCHANGED <<tfiles, dir_exists, dir, now, original_content,
                   edited_content, result, backup_path, nsess, changed_from,
                   op, nm>>

\* Lines 79-84: read the edited text, remove the temporary file, compare.
Compare(p) ==
    /\ pc[p] = "compare"
    /\ edited_content' = [edited_content EXCEPT ![p] = read_file(temp[p])]
    /\ temp' = [temp EXCEPT ![p] = NoFile]
    /\ IF Changed(read_file(temp[p]), original_content[p])
       THEN /\ pc' = [pc EXCEPT ![p] = "backup"]
            /\ UNCHANGED obs
       ELSE /\ pc' = [pc EXCEPT ![p] = "returned"]
            /\ obs' = [obs EXCEPT ![p].stage = "unchanged"]
    /\ UNCHANGED <<tfiles, dir_exists, dir, now, original_content, result,
                   backup_path, nsess, changed_from, op, nm>>

\* Line 87: backup_original returns the path of the record it wrote.
Backup(p) ==
    /\ pc[p] = "backup"
    /\ LET r == backup_original(dir, Target, original_content[p], now)
       IN  /\ dir_exists' = TRUE
           /\ dir' = r.dir
           /\ backup_path' = [backup_path EXCEPT ![p] = r.path]
           /\ obs' = [obs EXCEPT ![p].created = TRUE,
                                 ![p].wrote = r.dir[r.path].bytes]
    /\ pc' = [pc EXCEPT ![p] = "overwrite"]
    /\ UNCHANGED <<tfiles, now, original_content, edited_content, temp,
                   result, nsess, changed_from, op, nm>>

BackupMkdirFail_ThenOverwrite(p) ==
    /\ pc[p] = "backup"
    /\ ~dir_exists
    /\ pc' = [pc EXCEPT ![p] = "returned"]
    /\ result' = [result EXCEPT ![p] = "raised"]
    /\ obs' = [obs EXCEPT ![p].created = TRUE, ![p].stage = "backup_failed"]
    /\ tfiles' = [tfiles EXCEPT ![Target] = write_file(edited_content[p])]
    /\ UNCHANGED <<dir_exists, dir, now, original_content, edited_content,
                   temp, backup_path, nsess, changed_from, op, nm>>

\* Line 24 raises: backup_dir.mkdir fails and main() ends with the error.
BackupMkdirFail(p) ==
    /\ pc[p] = "backup"
    /\ ~dir_exists
    /\ pc' = [pc EXCEPT ![p] = "returned"]
    /\ result' = [result EXCEPT ![p] = "raised"]
    /\ obs' = [obs EXCEPT ![p].created = TRUE, ![p].stage = "backup_failed"]
    /\ UNCHANGED <<tfiles, dir_exists, dir, now, original_content,
                   edited_content, temp, backup_path, nsess, changed_from,
                   op, nm>>

\* Line 28 raises: the record cannot be opened (the directory is as it was)
\* or the write fails after the file was created or emptied, leaving a
\* proper prefix of the content.
BackupWriteFail(p) ==
    /\ pc[p] = "backup"
    /\ dir_exists' = TRUE
    /\ LET name  == makeBackupName(Target, Timestamp(now))
           bytes == Encode(original_content[p])
       IN  \/ UNCHANGED dir
           \/ \E k \in 0..(Len(bytes) - 1) :
                dir' = PutFile(dir, name,
                               [bytes |-> SubSeq(bytes, 1, k), mtime |-> now])
    /\ pc' = [pc EXCEPT ![p] = "returned"]
    /\ result' = [result EXCEPT ![p] = "raised"]
    /\ obs' = [obs EXCEPT ![p].created = TRUE, ![p].stage = "backup_failed"]
    /\ UNCHANGED <<tfiles, now, original_content, edited_content, temp,
                   backup_path, nsess, changed_from, op, nm>>

\* Line 91: the target is replaced by the edited text.
Overwrite(p) ==
    /\ pc[p] = "overwrite"
    /\ tfiles' = [tfiles EXCEPT ![Target] = write_file(edited_content[p])]
    /\ changed_from' = changed_from \cup {read_file(obs[p].start)}
    /\ pc' = [pc EXCEPT ![p] = "returned"]
    /\ obs' = [Dirtied(p) EXCEPT ![p].stage = "changed",
                                 ![p].before = tfiles[Target]]
    /\ UNCHANGED <<dir_exists, dir, now, original_content, edited_content,
                   temp, result, backup_path, nsess, op, nm>>

\* Line 91 raises: the target cannot be opened (it is as it was) or the
\* write fails after the file was created or emptied.
OverwriteFail(p) ==
    /\ pc[p] = "overwrite"
    /\ LET bytes == Encode(edited_content[p])
       IN  \/ UNCHANGED <<tfiles, changed_from>> /\ obs' = [obs EXCEPT ![p].stage = "overwrite_failed"]
           \/ \E k \in 0..(Len(bytes) - 1) :
                /\ tfiles' = [tfiles EXCEPT ![Target] = File(SubSeq(bytes, 1, k))]
                /\ changed_from' = changed_from \cup {read_file(obs[p].start)}
                /\ obs' = [Dirtied(p) EXCEPT ![p].stage = "overwrite_failed"]
    /\ pc' = [pc EXCEPT ![p] = "returned"]
    /\ result' = [result EXCEPT ![p] = "raised"]
    /\ UNCHANGED <<dir_exists, dir, now, original_content, edited_content,
                   temp, backup_path, nsess, op, nm>>

Session(p) ==
    \/ Start(p)
    \/ Editor(p)
    \/ Compare(p)
    \/ Backup(p)
    \/ BackupMkdirFail(p)
    \/ BackupWriteFail(p)
    \/ Overwrite(p)
    \/ OverwriteFail(p)

\* The clock: a second passes.
TickSecond ==
    /\ now % SecondsPerDay < MaxSecs
    /\ now' = now + 1
    /\ UNCHANGED <<tfiles, dir_exists, dir, pc, original_content,
                   edited_content, temp, result, backup_path, nsess, obs,
                   changed_from, op, nm>>

NoOp == [name |-> "none", ok |-> TRUE, err |-> "", target |-> <<>>,
         policy |-> "", n |-> 0, picked |-> <<>>, dir0 |-> EmptyDir,
         now0 |-> 0]

NoNaming == [applied |-> FALSE, originalName |-> <<>>, timestamp |-> "",
             name |-> <<>>, parsed |-> NotABackup]

\* Before anything ran: no backup directory, no session.
InitIdle ==
    /\ dir_exists = FALSE
    /\ dir = EmptyDir
    /\ now = 0
    /\ pc = [p \in Procs |-> "idle"]
    /\ original_content = [p \in Procs |-> <<>>]
    /\ edited_content = [p \in Procs |-> <<>>]
    /\ temp = [p \in Procs |-> NoFile]
    /\ result = [p \in Procs |-> "None"]
    /\ backup_path = [p \in Procs |-> <<>>]
    /\ nsess = 0
    /\ obs = [p \in Procs |-> NoObs]
    /\ changed_from = {}
    /\ op = NoOp

Init ==
    /\ InitIdle
    /\ \E f \in InitialTargets :
         tfiles = [n \in TargetNames |-> IF n = Target THEN f ELSE NoFile]
    /\ nm = NoNaming

\* One user, one session after the other.
Next == Session(1) \/ TickSecond

Spec == Init /\ [][Next]_vars

\* Two invocations, one session each, their steps interleaved.
FirstSession(p) == pc[p] = "idle" /\ Start(p)

ConcNext ==
    \/ \E p \in Procs :
          \/ FirstSession(p)
          \/ Editor(p)
          \/ Compare(p)
          \/ Backup(p)
          \/ BackupMkdirFail(p)
          \/ BackupWriteFail(p)
          \/ Overwrite(p)
          \/ OverwriteFail(p)
    \/ TickSecond

SpecConc == Init /\ [][ConcNext]_vars

----------------------------------------------------------------------------
\* The backup store's operations called on their own.

\* Contents handed to create: plain text, and text that is itself a
\* header-wrapped record.
StoreContents == {<<"a">>, <<"RULE", "META", "RULE", "LF", "b">>}

\* create(targetPath, originalContent, backupDir) is backup_original.
Create ==
    \E name \in TargetNames, content \in StoreContents :
        LET r == backup_original(dir, name, content, now)
        IN  /\ Cardinality(DOMAIN r.dir) <= MaxFiles
            /\ dir_exists' = TRUE
            /\ dir' = r.dir
            /\ op' = [NoOp EXCEPT !.name = "create", !.target = name,
                                  !.picked = r.path, !.dir0 = dir,
                                  !.now0 = now]
            /\ UNCHANGED <<tfiles, now, pc, original_content, edited_content,
                           temp, result, backup_path, nsess, obs,
                           changed_from, nm>>

\* The records of d attributed to the file called targetName.
Matching(d, targetName) ==
    {f \in DOMAIN d :
        /\ parseBackupName(f).ok
        /\ parseBackupName(f).originalName = targetName}

\* The files of S with the greatest modification time.
Latest(d, S) == {f \in S : \A g \in S : d[g].mtime <= d[f].mtime}

\* restoreLast(targetPath, backupDir).
RestoreLast ==
    \E targetName \in TargetNames :
        LET req == [NoOp EXCEPT !.name = "restore", !.target = targetName,
                                !.dir0 = dir, !.now0 = now]
        IN  /\ IF ~dir_exists
               THEN /\ op' = [req EXCEPT !.ok = FALSE, !.err = "NoBackupDirectory"]
                    /\ UNCHANGED tfiles
               ELSE IF Matching(dir, targetName) = {}
               THEN /\ op' = [req EXCEPT !.ok = FALSE, !.err = "NoBackupsFound"]
                    /\ UNCHANGED tfiles
               ELSE \E f \in Latest(dir, Matching(dir, targetName)) :
                    /\ op' = [req EXCEPT !.picked = f]
                    /\ tfiles' = [tfiles EXCEPT ![targetName] =
                           write_file(stripHeader(read_file(File(dir[f].bytes))))]
            /\ UNCHANGED <<dir_exists, dir, now, pc, original_content,
                           edited_content, temp, result, backup_path, nsess,
                           obs, changed_from, nm>>

\* The values a prune amount may have on the command line or in the setting.
PolicyValues == {"all", "zzz", "-1", "0", "1"}

Days == -1..MaxDays

\* int(value): the integers written as decimal numerals.
IsInteger(v) == \E n \in Days : ToString(n) = v

IntOf(v) == CHOOSE n \in Days : ToString(n) = v

ValidPolicy(v) == v = "all" \/ (IsInteger(v) /\ IntOf(v) >= 0)

Expired_AtLeast(mtime, t, n) == t - mtime >= n * SecondsPerDay

\* Older than n days at time t.
Expired(mtime, t, n) == t - mtime > n * SecondsPerDay

Doomed(d, t, v) ==
    IF v = "all" THEN DOMAIN d
    ELSE {f \in DOMAIN d : Expired(d[f].mtime, t, IntOf(v))}

\* prune(backupDir, policy).
Prune ==
    \E v \in PolicyValues :
        LET req == [NoOp EXCEPT !.name = "prune", !.policy = v,
                                !.dir0 = dir, !.now0 = now]
        IN  /\ IF ~ValidPolicy(v)
               THEN /\ op' = [req EXCEPT !.ok = FALSE, !.err = "InvalidPolicyValue"]
                    /\ UNCHANGED dir
               ELSE /\ op' = [req EXCEPT !.n = Cardinality(Doomed(dir, now, v))]
                    /\ dir' = [f \in DOMAIN dir \ Doomed(dir, now, v) |-> dir[f]]
            /\ UNCHANGED <<tfiles, dir_exists, now, pc, original_content,
                           edited_content, temp, result, backup_path, nsess,
                           obs, changed_from, nm>>

\* The clock: a day passes.
TickDay ==
    /\ now \div SecondsPerDay < MaxDays
    /\ now' = now + SecondsPerDay
    /\ UNCHANGED <<tfiles, dir_exists, dir, pc, original_content,
                   edited_content, temp, result, backup_path, nsess, obs,
                   changed_from, op, nm>>

StoreNext == Create \/ RestoreLast \/ Prune \/ TickSecond \/ TickDay

\* The store is used on its own: the target holds text, nothing else exists.
InitStore ==
    /\ InitIdle
    /\ tfiles = [n \in TargetNames |-> IF n = Target THEN File(<<"a">>) ELSE NoFile]
    /\ nm = NoNaming

SpecStore == InitStore /\ [][StoreNext]_vars

----------------------------------------------------------------------------
\* Backup naming on its own: a pair is named, and the name parsed.

NameTokens == {"t", ".", "orig"}

Names ==
    UNION {[1..k -> NameTokens] : k \in 1..MaxNameLen}

Timestamps == {Timestamp(t) : t \in 0..MaxSecs}

InitName ==
    /\ InitIdle
    /\ tfiles = [n \in TargetNames |-> NoFile]
    /\ \E n \in Names, ts \in Timestamps :
         nm = [NoNaming EXCEPT !.originalName = n, !.timestamp = ts]

ApplyNaming ==
    /\ ~nm.applied
    /\ nm' = [nm EXCEPT !.applied = TRUE,
                        !.name = makeBackupName(nm.originalName, nm.timestamp),
                        !.parsed = parseBackupName(
                            makeBackupName(nm.originalName, nm.timestamp))]
    /\ UNCHANGED <<tfiles, dir_exists, dir, now, pc, original_content,
                   edited_content, temp, result, backup_path, nsess, obs,
                   changed_from, op>>

SpecName == InitName /\ [][ApplyNaming]_vars

----------------------------------------------------------------------------
\* The claims.

\* What a record holds once its header is removed, as bytes.
Stripped(bytes) == Encode(stripHeader(read_file(File(bytes))))

\* C1: after any sequence of edit sessions, for every session that changed
\* the target the backup directory holds a record whose body is exactly the
\* content the target had when that session started.  Stated for the text
\* read_file gives for either file, which equal bytes would make equal, and
\* for the moments when no session runs and the last one raised no error.
C1_EveryChangeRecoverable ==
    (\A p \in Procs : pc[p] \in {"idle", "returned"} /\ result[p] # "raised") =>
        \A c \in changed_from :
            \E f \in DOMAIN dir : read_file(File(dir[f].bytes)) = c

\* C2: the target is overwritten only after the backup was written: a
\* session whose backup fails ends with the I/O error and the target holds
\* what it held when the session started, and a target that differs from
\* that has a record written by the session.
C2_BackupBeforeOverwrite ==
    \A p \in Procs :
        /\ obs[p].stage = "backup_failed" =>
              /\ result[p] = "raised"
              /\ pc[p] = "returned"
              /\ tfiles[Target] = obs[p].start
        /\ (pc[p] # "idle" /\ tfiles[Target] # obs[p].start) =>
              /\ backup_path[p] \in DOMAIN dir
              /\ obs[p].wrote = Encode(original_content[p])

C2_Witness ==
    \E p \in Procs :
        /\ obs[p].stage = "backup_failed"
        /\ obs[p].start.exists
        /\ dir_exists
        /\ edited_content[p] # original_content[p]

\* C3: a session whose edited content equals the content given to the editor
\* changes nothing: create is not called, the backup directory and its
\* records are as they were, and so is the target.
C3_UnchangedSessionChangesNothing ==
    \A p \in Procs :
        (pc[p] = "returned" /\ obs[p].launched
            /\ edited_content[p] = original_content[p]) =>
              /\ ~obs[p].created
              /\ dir = obs[p].dir0
              /\ dir_exists = obs[p].de0
              /\ tfiles[Target] = obs[p].start
              /\ temp[p] = NoFile
              /\ result[p] = "None"

C3_Witness ==
    \E p \in Procs :
        /\ pc[p] = "returned"
        /\ obs[p].launched
        /\ obs[p].stage = "unchanged"
        /\ ~tfiles[Target].exists
        /\ ~dir_exists
        /\ nsess = 1

\* C4: after a session in which the editor changed the content, the target
\* holds exactly the edited content and the record the session wrote holds,
\* after header removal, exactly the content the target had when the
\* session started (the empty string when it did not exist).
C4_TargetEditedRecordOriginal ==
    \A p \in Procs :
        (obs[p].stage = "changed" /\ backup_path[p] \in DOMAIN dir) =>
              /\ tfiles[Target] = File(Encode(edited_content[p]))
              /\ Stripped(dir[backup_path[p]].bytes) = obs[p].start.bytes

\* C5: every call to create adds exactly one file to the backup directory
\* and leaves every file that was already there unchanged.
C5_CreateAddsOneFile ==
    op.name = "create" =>
        /\ Cardinality(DOMAIN dir) = Cardinality(DOMAIN op.dir0) + 1
        /\ \A f \in DOMAIN op.dir0 : f \in DOMAIN dir /\ dir[f] = op.dir0[f]

HasMarker(name) == \E i \in 1..Len(name) : MarkerAt(name, i)

EndsWithDotOrig(name) ==
    /\ Len(name) >= 2
    /\ name[Len(name) - 1] = "."
    /\ name[Len(name)] = "orig"

RoundTrip ==
    /\ nm.parsed.ok
    /\ nm.parsed.originalName = nm.originalName
    /\ nm.parsed.timestamp = <<nm.timestamp>>

C7_PermissionDeniedNoEffect ==
    \A p \in Procs :
        (pc[p] # "idle"
            /\ \/ obs[p].start.exists /\ ~obs[p].tw
               \/ ~obs[p].start.exists /\ ~obs[p].pw) =>
              /\ pc[p] = "returned"
              /\ result[p] = "1"
              /\ ~obs[p].launched
              /\ ~obs[p].temp_made
              /\ temp[p] = NoFile
              /\ ~obs[p].created
              /\ dir = obs[p].dir0
              /\ dir_exists = obs[p].de0
              /\ tfiles[Target] = obs[p].start

C7_Witness ==
    \E p \in Procs :
        /\ result[p] = "1"
        /\ ~obs[p].start.exists
        /\ obs[p].tw
        /\ ~obs[p].pw
        /\ dir_exists

C9_PruneByAge ==
    op.name = "prune" =>
        /\ \A n \in 0..MaxDays :
              op.policy = ToString(n) =>
                  /\ op.ok
                  /\ DOMAIN dir =
                        {f \in DOMAIN op.dir0 :
                            ~(op.now0 - op.dir0[f].mtime > n * 86400)}
                  /\ \A f \in DOMAIN dir : dir[f] = op.dir0[f]
                  /\ op.n = Cardinality(DOMAIN op.dir0 \ DOMAIN dir)
        /\ (op.policy # "all" /\ \A n \in 0..MaxDays : op.policy # ToString(n)) =>
              /\ ~op.ok
              /\ op.err = "InvalidPolicyValue"
              /\ dir = op.dir0

C9_Witness ==
    /\ op.name = "prune"
    /\ op.policy = "1"
    /\ op.n = 1
    /\ Cardinality(DOMAIN dir) = 1
    /\ \E f \in DOMAIN dir : op.now0 - dir[f].mtime = 86400

====
